---- MODULE Spec2Model ----
(***************************************************************************)
(* Model of the wordgrid leaderboard server (server/main.py): a Flask      *)
(* application with two routes over one MongoDB collection.                *)
(*                                                                         *)
(*   GET  /leaderboard/<date>  get_leaderboard                             *)
(*   POST /leaderboard         add_score                                   *)
(*                                                                         *)
(* A client sends a request, the route's handler runs as one step (each    *)
(* handler performs a single operation on the collection), and the client  *)
(* receives the response.                                                  *)
(***************************************************************************)
EXTENDS Integers, Sequences, FiniteSets, TLC

VARIABLES leaderboard_collection, request, response

vars == <<leaderboard_collection, request, response>>

\* Bound of the model: number of documents the collection may hold.
MaxStore == 3

\* A limit of 50 enforced with >= instead of >.
MaxNameLenOffByOne == 50 - 1

\* Limits of add_score.
MaxNameLen == 50
MaxDateLen == 10

(***************************************************************************)
(* JSON values as Python sees them after request.get_json(): a tag for the *)
(* Python type, the text of a str and the number of an int/bool/float.     *)
(* A JSON true/false is a Python bool, whose numeric value is 1/0.  A      *)
(* float is modelled by its integer part (its fraction is one half).       *)
(***************************************************************************)
JStr(s)   == [t |-> "str", s |-> s, n |-> 0]
JInt(n)   == [t |-> "int", s |-> "", n |-> n]
JBool(b)  == [t |-> "bool", s |-> "", n |-> IF b THEN 1 ELSE 0]
JFloat(n) == [t |-> "float", s |-> "", n |-> n]

Name1  == "A"
Name50 == "ABCDEFGHIJKLMNOPQRSTUVWXYZabcdefghijklmnopqrstuvwx"
Name51 == "ABCDEFGHIJKLMNOPQRSTUVWXYZabcdefghijklmnopqrstuvwxy"
Date1  == "x"
Date10 == "2024-01-01"
Date11 == "2024-01-011"

\* Values a client may put under each key of the body.
NameValues  == {JStr(""), JStr(Name1), JStr(Name50), JStr(Name51), JInt(7)}
ScoreValues == {JInt(5), JInt(10), JBool(TRUE), JFloat(10), JStr("10")}
DateValues  == {JStr(""), JStr(Date1), JStr(Date10), JStr(Date11), JInt(20240101)}
ExtraValues == {JStr("cheat")}

\* Dates a client may ask the leaderboard of (path segment, always text).
PathDates == {Date1, "X", Date10, "2024-01-02"}

\* A JSON object: a mapping from some keys to values.
Object(f) == [kind |-> "object", fields |-> f, items |-> <<>>]
\* A JSON array.
Array(s)  == [kind |-> "array", fields |-> [k \in {} |-> JInt(0)], items |-> s]
\* JSON null (Python None); stands for every body that is neither a mapping
\* nor a sequence: the membership test raises TypeError on all of them.
Null      == [kind |-> "null", fields |-> [k \in {} |-> JInt(0)], items |-> <<>>]

ValuesOf(k) ==
    CASE k = "name"  -> NameValues
      [] k = "score" -> ScoreValues
      [] k = "date"  -> DateValues
      [] OTHER       -> ExtraValues

Keys == {"name", "score", "date", "extra"}

ObjectBodies ==
    UNION { { Object(f) : f \in { g \in [K -> UNION {ValuesOf(k) : k \in K}] :
                                     \A k \in K : g[k] \in ValuesOf(k) } }
            : K \in SUBSET Keys }

ArrayBodies ==
    { Array(<<>>), Array(<<JStr("name"), JStr("score")>>),
      Array(<<JStr("name"), JStr("score"), JStr("date")>>) }

Bodies == ObjectBodies \cup ArrayBodies \cup {Null}

NoRequest  == [method |-> "NONE", date |-> "", data |-> Null]
NoResponse == [status |-> 0, error |-> "", message |-> "", list |-> <<>>]

\* jsonify({"error": reason}), 400
ErrorResponse(reason) == [status |-> 400, error |-> reason, message |-> "", list |-> <<>>]
\* jsonify({"message": text}), 201
CreatedResponse(text) == [status |-> 201, error |-> "", message |-> text, list |-> <<>>]
\* jsonify(list) with the default status
ListResponse(l)       == [status |-> 200, error |-> "", message |-> "", list |-> l]
\* An exception escaping a handler: Flask answers 500 without a JSON reason.
ServerError           == [status |-> 500, error |-> "", message |-> "", list |-> <<>>]

(***************************************************************************)
(* Python operators used by add_score.                                     *)
(***************************************************************************)
\* isinstance(v, str)
isinstance_str(v) == v.t = "str"

\* isinstance(v, int): bool is a subclass of int in Python.
isinstance_int(v) == v.t \in {"int", "bool"}

\* `key in data` raises TypeError when data is None.
in_raises(data) == data.kind = "null"

\* `key in data` for a dict (its keys) or a list (its elements).
in_data(key, data) ==
    CASE data.kind = "object" -> key \in DOMAIN data.fields
      [] data.kind = "array"  -> \E i \in DOMAIN data.items : data.items[i] = JStr(key)
      [] OTHER                -> FALSE

(***************************************************************************)
(* The collection: documents in insertion order; each has the _id the      *)
(* driver adds on insert.                                                  *)
(***************************************************************************)
\* An insert that replaces the stored entry of the same name and date.
insert_one_upsert(coll, doc) ==
    LET kept == SelectSeq(coll, LAMBDA d : ~(d.name = doc.name /\ d.date = doc.date))
    IN  Append(kept, [_id |-> Len(coll) + 1, name |-> doc.name,
                      score |-> doc.score, date |-> doc.date])

\* An insert into a capped collection: the oldest document makes room.
insert_one_capped(coll, doc) ==
    Append(IF Len(coll) >= 2 THEN Tail(coll) ELSE coll,
           [_id |-> Len(coll) + 1, name |-> doc.name,
            score |-> doc.score, date |-> doc.date])

\* leaderboard_collection.insert_one(doc)
insert_one(coll, doc) ==
    Append(coll, [_id |-> Len(coll) + 1, name |-> doc.name,
                  score |-> doc.score, date |-> doc.date])

\* A find without its filter.
find_unfiltered(coll, date) == DOMAIN coll

\* A find that stops at the first match (find_one).
find_first(coll, date) ==
    { i \in DOMAIN coll : /\ coll[i].date = JStr(date)
                          /\ \A j \in 1..(i - 1) : coll[j].date # JStr(date) }

\* find's filter {"date": date}: the stored documents whose date equals it.
find(coll, date) == { i \in DOMAIN coll : coll[i].date = JStr(date) }

\* find's projection {"_id": 0}.
project(doc) == [name |-> doc.name, score |-> doc.score, date |-> doc.date]

\* BSON comparison order of the score types that can be stored:
\* every number sorts before every boolean.
bson_rank(v) == IF v.t = "bool" THEN 2 ELSE 1

bson_leq(a, b) ==
    \/ bson_rank(a) < bson_rank(b)
    \/ bson_rank(a) = bson_rank(b) /\ a.n <= b.n

\* .sort("score", 1): the orders of the matched documents that ascend by
\* score; the order among equal scores is the store's choice.
sort(coll, matched) ==
    { o \in [1..Cardinality(matched) -> matched] :
        /\ \A i, j \in DOMAIN o : i # j => o[i] # o[j]
        /\ \A i, j \in DOMAIN o : i < j => bson_leq(coll[o[i]].score, coll[o[j]].score) }

(***************************************************************************)
(* get_leaderboard(date): the responses the handler may give.              *)
(***************************************************************************)
get_leaderboard(coll, date) ==
    { ListResponse([i \in DOMAIN o |-> project(coll[o[i]])]) :
        o \in sort(coll, find(coll, date)) }

\* An add_score that inserts as soon as the types are right and checks
\* emptiness and lengths afterwards.
add_score_insert_first(coll, data) ==
    IF in_raises(data)
    THEN [resp |-> ServerError, coll |-> coll]
    ELSE IF in_data("name", data) /\ in_data("score", data) /\ in_data("date", data)
    THEN IF data.kind # "object"
         THEN [resp |-> ServerError, coll |-> coll]
         ELSE LET f == data.fields
                  stored == insert_one(coll, [name |-> f["name"], score |-> f["score"],
                                              date |-> f["date"]])
              IN
              IF \/ ~isinstance_str(f["name"])
                 \/ ~isinstance_int(f["score"])
                 \/ ~isinstance_str(f["date"])
              THEN [resp |-> ErrorResponse("Invalid data types!"), coll |-> coll]
              ELSE IF f["name"].s = "" \/ f["date"].s = ""
              THEN [resp |-> ErrorResponse("Name and date cannot be empty!"), coll |-> stored]
              ELSE IF Len(f["name"].s) > MaxNameLen
              THEN [resp |-> ErrorResponse("Name is too long!"), coll |-> stored]
              ELSE IF Len(f["date"].s) > MaxDateLen
              THEN [resp |-> ErrorResponse("Date is too long!"), coll |-> stored]
              ELSE [resp |-> CreatedResponse("Score added successfully!"), coll |-> stored]
    ELSE [resp |-> ErrorResponse("Invalid data!"), coll |-> coll]

(***************************************************************************)
(* add_score(): the response and the collection afterwards.                *)
(***************************************************************************)
add_score(coll, data) ==
    IF in_raises(data)
    THEN [resp |-> ServerError, coll |-> coll]
    ELSE IF in_data("name", data) /\ in_data("score", data) /\ in_data("date", data)
    THEN IF data.kind # "object"
         THEN \* data["name"] on a list raises TypeError
              [resp |-> ServerError, coll |-> coll]
         ELSE LET f == data.fields IN
              IF \/ ~isinstance_str(f["name"])
                 \/ ~isinstance_int(f["score"])
                 \/ ~isinstance_str(f["date"])
              THEN [resp |-> ErrorResponse("Invalid data types!"), coll |-> coll]
              ELSE IF f["name"].s = "" \/ f["date"].s = ""
              THEN [resp |-> ErrorResponse("Name and date cannot be empty!"), coll |-> coll]
              ELSE IF Len(f["name"].s) > MaxNameLen
              THEN [resp |-> ErrorResponse("Name is too long!"), coll |-> coll]
              ELSE IF Len(f["date"].s) > MaxDateLen
              THEN [resp |-> ErrorResponse("Date is too long!"), coll |-> coll]
              ELSE [resp |-> CreatedResponse("Score added successfully!"),
                    coll |-> insert_one(coll, [name |-> f["name"], score |-> f["score"],
                                               date |-> f["date"]])]
    ELSE [resp |-> ErrorResponse("Invalid data!"), coll |-> coll]

(***************************************************************************)
(* The state machine.                                                      *)
(***************************************************************************)
Init ==
    /\ leaderboard_collection = <<>>
    /\ request = NoRequest
    /\ response = NoResponse

\* A client posts a body to /leaderboard.
SendPost ==
    /\ request = NoRequest
    /\ Len(leaderboard_collection) < MaxStore
    /\ \E data \in Bodies :
          request' = [method |-> "POST", date |-> "", data |-> data]
    /\ UNCHANGED <<leaderboard_collection, response>>

\* A client gets /leaderboard/<date>.
SendGet ==
    /\ request = NoRequest
    /\ \E date \in PathDates :
          request' = [method |-> "GET", date |-> date, data |-> Null]
    /\ UNCHANGED <<leaderboard_collection, response>>

\* The POST route runs add_score.
AddScore ==
    /\ request.method = "POST"
    /\ response = NoResponse
    /\ LET r == add_score(leaderboard_collection, request.data) IN
          /\ response' = r.resp
          /\ leaderboard_collection' = r.coll
    /\ UNCHANGED request

\* The GET route runs get_leaderboard.
GetLeaderboard ==
    /\ request.method = "GET"
    /\ response = NoResponse
    /\ response' \in get_leaderboard(leaderboard_collection, request.date)
    /\ UNCHANGED <<leaderboard_collection, request>>

\* The client takes the response; the exchange is over.
Receive ==
    /\ response # NoResponse
    /\ request' = NoRequest
    /\ response' = NoResponse
    /\ UNCHANGED leaderboard_collection

Next == SendPost \/ SendGet \/ AddScore \/ GetLeaderboard \/ Receive

Spec == Init /\ [][Next]_vars

(***************************************************************************)
(* Vocabulary of the properties.                                           *)
(***************************************************************************)
\* The handler of a POST has answered and the client has not yet received.
PostDone == request.method = "POST" /\ response # NoResponse

\* The handler of a GET has answered and the client has not yet received.
GetDone == request.method = "GET" /\ response # NoResponse

\* The step in which add_score handles the pending POST.
AddScoreStep ==
    request.method = "POST" /\ response = NoResponse /\ response' # NoResponse

\* The step in which get_leaderboard handles the pending GET.
GetLeaderboardStep ==
    request.method = "GET" /\ response = NoResponse /\ response' # NoResponse

\* The body is a record that has all three fields.
AllPresent(data) ==
    data.kind = "object" /\ {"name", "score", "date"} \subseteq DOMAIN data.fields

IsText(v)    == v.t = "str"
IsInteger(v) == v.t = "int"

\* A valid submission in the sense of the data model.
ValidSubmit(data) ==
    /\ AllPresent(data)
    /\ IsText(data.fields["name"])
    /\ IsInteger(data.fields["score"])
    /\ IsText(data.fields["date"])
    /\ Len(data.fields["name"].s) \in 1..50
    /\ Len(data.fields["date"].s) \in 1..10

\* The entry a body with all three fields submits.
EntryOf(data) ==
    [name |-> data.fields["name"], score |-> data.fields["score"],
     date |-> data.fields["date"]]

\* Number of positions of a sequence that hold e.
Count(e, s) == Cardinality({ i \in DOMAIN s : s[i] = e })

\* The stored documents without their internal identifier.
Stored(coll) ==
    [i \in DOMAIN coll |-> [name |-> coll[i].name, score |-> coll[i].score,
                            date |-> coll[i].date]]

IsPrefix(s, t) == Len(s) <= Len(t) /\ SubSeq(t, 1, Len(s)) = s

(***************************************************************************)
(* Properties of the submit operation.                                     *)
(***************************************************************************)
\* A body that fails one of the five checks whatever the reading of "integer":
\* a field is missing, name or date is not text, score is a float or a text,
\* name or date is empty, name is longer than 50 or date longer than 10.
\* (A boolean score is the subject of C5.)
FailsValidation(data) ==
    \/ ~AllPresent(data)
    \/ /\ AllPresent(data)
       /\ \/ ~IsText(data.fields["name"])
          \/ data.fields["score"].t \in {"float", "str"}
          \/ ~IsText(data.fields["date"])
          \/ data.fields["name"].s = ""
          \/ data.fields["date"].s = ""
          \/ Len(data.fields["name"].s) > 50
          \/ Len(data.fields["date"].s) > 10

C2_ValidSubmitStored ==
    [][ (AddScoreStep /\ ValidSubmit(request.data)) =>
          /\ response' = CreatedResponse("Score added successfully!")
          /\ Len(leaderboard_collection') = Len(leaderboard_collection) + 1
          /\ IsPrefix(leaderboard_collection, leaderboard_collection')
          /\ LET doc == leaderboard_collection'[Len(leaderboard_collection')] IN
                /\ DOMAIN doc = {"_id", "name", "score", "date"}
                /\ doc.name = request.data.fields["name"]
                /\ doc.score = request.data.fields["score"]
                /\ doc.date = request.data.fields["date"] ]_vars

\* A valid submit that carried an extra field and a name of 50 was stored
\* after an earlier document.
C2_Witness ==
    /\ PostDone
    /\ ValidSubmit(request.data)
    /\ "extra" \in DOMAIN request.data.fields
    /\ request.data.fields["name"] = JStr(Name50)
    /\ response.status = 201
    /\ Len(leaderboard_collection) = 2
    /\ Stored(leaderboard_collection)[2] = EntryOf(request.data)

\* C5: the type check is strict: a submit with all three fields whose score is
\* a boolean, a float or a text is answered 400 "Invalid data types!" and
\* nothing is inserted.
C5_StrictTypeCheck ==
    [][ (/\ AddScoreStep
         /\ AllPresent(request.data)
         /\ request.data.fields["score"].t \in {"bool", "float", "str"})
          => /\ response' = ErrorResponse("Invalid data types!")
             /\ leaderboard_collection' = leaderboard_collection ]_vars

\* C6: every stored entry has a text name of length 1..50, a text date of
\* length 1..10 and an integer score.
C6_StoredEntriesValid ==
    \A i \in DOMAIN leaderboard_collection :
       LET doc == leaderboard_collection[i] IN
          /\ IsText(doc.name) /\ Len(doc.name.s) \in 1..50
          /\ IsText(doc.date) /\ Len(doc.date.s) \in 1..10
          /\ IsInteger(doc.score)

\* The reason the first failing check gives, in the order presence, types,
\* emptiness, name length, date length; "" when every check passes.
FirstFailing(data) ==
    IF ~AllPresent(data) THEN "Invalid data!"
    ELSE IF \/ ~IsText(data.fields["name"])
            \/ ~IsInteger(data.fields["score"])
            \/ ~IsText(data.fields["date"]) THEN "Invalid data types!"
    ELSE IF data.fields["name"].s = "" \/ data.fields["date"].s = ""
         THEN "Name and date cannot be empty!"
    ELSE IF Len(data.fields["name"].s) > 50 THEN "Name is too long!"
    ELSE IF Len(data.fields["date"].s) > 10 THEN "Date is too long!"
    ELSE ""

\* C9: a rejected submit is answered 400 with an error reason, and the reason
\* is that of the first failing check in the order presence, types, emptiness,
\* name length, date length.
C9_FirstFailingCheck ==
    PostDone =>
       /\ response.status # 201 => response.status = 400 /\ response.error # ""
       /\ FirstFailing(request.data) # ""
             => response = ErrorResponse(FirstFailing(request.data))

(***************************************************************************)
(* Properties of the get operation and of the two together.                *)
(***************************************************************************)
\* The entries that occur in the collection or in the response's list.
EntriesInSight ==
    { Stored(leaderboard_collection)[i] : i \in DOMAIN leaderboard_collection }
       \cup { response.list[i] : i \in DOMAIN response.list }

\* C3: get leaderboard answers 200 with exactly the stored entries whose date
\* equals the requested date: each once per stored copy, no entry of another
\* date, no internal identifier; the empty list when nothing matches.
C3_ExactlyTheDate ==
    GetDone =>
       /\ response.status = 200
       /\ \A i \in DOMAIN response.list :
             DOMAIN response.list[i] = {"name", "score", "date"}
       /\ \A e \in EntriesInSight :
             Count(e, response.list) =
                IF e.date = JStr(request.date)
                THEN Count(e, Stored(leaderboard_collection)) ELSE 0
       /\ (\A i \in DOMAIN leaderboard_collection :
              leaderboard_collection[i].date # JStr(request.date))
             => response.list = <<>>

\* Two stored copies of one entry and an entry of another date: the list has
\* the two copies only.
C3_Witness ==
    /\ GetDone
    /\ Len(leaderboard_collection) = 3
    /\ Len(response.list) = 2
    /\ response.list[1] = response.list[2]
    /\ request.date = Date10

\* C4: the list get leaderboard returns ascends by score: for positions i < j,
\* list[i].score <= list[j].score.
C4_AscendingScore ==
    GetDone =>
       \A i, j \in DOMAIN response.list :
          i < j => response.list[i].score.n <= response.list[j].score.n

\* The leaderboards of a date a get may return from a collection.
Leaderboards(coll, date) == { r.list : r \in get_leaderboard(coll, date) }

\* C7 as stated: after a valid submission the leaderboard of its date contains
\* the submitted entry exactly once.
C7_ExactlyOnce ==
    (PostDone /\ ValidSubmit(request.data)) =>
       \A l \in Leaderboards(leaderboard_collection, request.data.fields["date"].s) :
          Count(EntryOf(request.data), l) = 1

\* C7 amended: a valid submission (and any submission answered 201) adds
\* exactly one copy of the submitted entry to the leaderboard of its date:
\* the leaderboard afterwards contains the entry once more than before,
\* hence exactly once when no equal entry was stored before.
C7_OneMoreCopy ==
    [][ (AddScoreStep /\ (ValidSubmit(request.data) \/ response'.status = 201)) =>
          LET e == EntryOf(request.data)
              d == request.data.fields["date"].s
          IN  /\ Leaderboards(leaderboard_collection', d) # {}
              /\ \A before \in Leaderboards(leaderboard_collection, d) :
                   \A after \in Leaderboards(leaderboard_collection', d) :
                      /\ Count(e, after) = Count(e, before) + 1
                      /\ Count(e, before) = 0 => Count(e, after) = 1 ]_vars

\* A valid entry was submitted to a collection that already held a copy of it
\* and another entry of the same date.
C7_Witness ==
    /\ PostDone
    /\ ValidSubmit(request.data)
    /\ response.status = 201
    /\ Len(leaderboard_collection) = 3
    /\ Count(EntryOf(request.data), Stored(leaderboard_collection)) = 2
    /\ \A i \in DOMAIN leaderboard_collection :
          leaderboard_collection[i].date = request.data.fields["date"]

\* C8: submit enforces no uniqueness: a valid entry equal to one already
\* stored is accepted with 201 again, the collection then holds one more
\* record of it (two or more), and every one of them is in the leaderboard
\* of its date.
C8_DuplicatesKept ==
    [][ (/\ AddScoreStep
         /\ ValidSubmit(request.data)
         /\ Count(EntryOf(request.data), Stored(leaderboard_collection)) >= 1) =>
          LET e == EntryOf(request.data) IN
             /\ response'.status = 201
             /\ response'.message = "Score added successfully!"
             /\ Count(e, Stored(leaderboard_collection'))
                   = Count(e, Stored(leaderboard_collection)) + 1
             /\ \A l \in Leaderboards(leaderboard_collection', e.date.s) :
                   Count(e, l) = Count(e, Stored(leaderboard_collection')) ]_vars

\* The same entry was submitted twice and both records are stored.
C8_Witness ==
    /\ PostDone
    /\ ValidSubmit(request.data)
    /\ response.status = 201
    /\ Len(leaderboard_collection) = 2
    /\ Stored(leaderboard_collection)[1] = EntryOf(request.data)
    /\ Stored(leaderboard_collection)[2] = EntryOf(request.data)
    /\ leaderboard_collection[1]._id # leaderboard_collection[2]._id

\* C10: the store is append-only: every step keeps the stored documents, in
\* place and unchanged, so their number never decreases, and the step of a
\* get request leaves the collection as it was.
C10_AppendOnly ==
    [][ /\ IsPrefix(leaderboard_collection, leaderboard_collection')
        /\ Len(leaderboard_collection') >= Len(leaderboard_collection)
        /\ (request.method = "GET" \/ request'.method = "GET")
              => leaderboard_collection' = leaderboard_collection ]_vars

\* A get was answered from a collection of several documents that submits
\* had built.
C10_Witness ==
    /\ GetDone
    /\ Len(leaderboard_collection) >= 2
    /\ Len(response.list) >= 1
====
